---- MODULE Spec2Model ----
(***************************************************************************)
(* Model of src/index.mjs: the /query turn handler, the output parser      *)
(* (ManifestoOutputParser.parseOutput) and the history formatter           *)
(* (formatConversationHistory).  The file holds two definitions of each;   *)
(* the variable def says which one is the deployed one (1: lines 1-278,    *)
(* 2: lines 280-520).                                                      *)
(***************************************************************************)
EXTENDS Integers, Sequences, FiniteSets, TLC

VARIABLES
    def,            \* which definition of the file is running (1 or 2)
    \* ---- the server process and its requests
    mongo,          \* mongoClientPromise: "pending", "connected", "failed"
    alive,          \* FALSE once the node process has terminated
    pc,             \* pc[r]: where the handler invocation of request r stands
    req,            \* req[r]: the body of request r (req.body)
    input,          \* the handler's local `input`, per invocation scope
    chat_history,   \* the handler's local `chat_history`, per invocation scope
    agentExecutor,  \* the handler's local `agentExecutor`, per invocation scope
    res,            \* res[r]: the responses sent for request r, in order
    touched,        \* touched[r]: the collaborators the invocation called
    failure,        \* failure[r]: the step of the turn that failed, or "none"
    invoked,        \* invoked[r]: the executor and arguments of r's agent run
    agentOut,       \* agentOut[r]: what the agent run of request r produced
    conv,           \* conv[r]: the history client r holds (last one returned)
    turnsDone,      \* turnsDone[r]: successful turns of client r's conversation
    sent,           \* number of requests sent so far
    \* ---- direct calls of the parser
    pOutput, pResult, pPrev, pCalls,
    \* ---- direct calls of the formatter
    fHistory, fResult

handlerVars == <<mongo, alive, pc, req, input, chat_history, agentExecutor, res,
                 touched, failure, invoked, agentOut, conv, turnsDone, sent>>
parserVars  == <<pOutput, pResult, pPrev, pCalls>>
formatVars  == <<fHistory, fResult>>
vars == <<def, handlerVars, parserVars, formatVars>>

----------------------------------------------------------------------------
(* Bounds of the model.                                                    *)
NumReqs     == 2    \* clients, each with at most one request in flight
MaxSent     == 2    \* requests sent in one run
MaxCalls    == 3    \* direct parser calls in one run
MaxHistLen  == 2    \* length of a history handed to the formatter directly

Defs == {1, 2}
Reqs == 1..NumReqs

----------------------------------------------------------------------------
(* JavaScript values, tagged by kind.                                      *)
Undefined == [k |-> "undefined"]
Null      == [k |-> "null"]
Str(s)    == [k |-> "string", v |-> s]
Num(n)    == [k |-> "number", v |-> n]
Arr(s)    == [k |-> "array",  v |-> s]
Obj(f)    == [k |-> "object", v |-> f]

\* Completions of a call or a block: a returned value, a thrown error, or
\* (for a block) control running off its end.
Return(v) == [c |-> "return", v |-> v]
Throw(e)  == [c |-> "throw",  v |-> Str(e)]
Normal    == [c |-> "normal", v |-> Undefined]

\* x === "s"
IsStr(x, s) == x.k = "string" /\ x.v = s
\* ToBoolean(x): the test of `!x`, `x && ...`, filter(Boolean)
ToBoolean(x) ==
    CASE x.k \in {"undefined", "null"} -> FALSE
      [] x.k = "string" -> x.v # ""
      [] x.k = "number" -> x.v # 0
      [] OTHER -> TRUE
\* Array.isArray(x)
IsArray(x) == x.k = "array"
\* typeof x === "string"
TypeofString(x) == x.k = "string"
\* reading x.f throws a TypeError exactly when x is null or undefined
Nullish(x) == x.k \in {"undefined", "null"}
\* x.f for a non-nullish x: own property of an object, else undefined
Prop(x, f) == IF x.k = "object" /\ f \in DOMAIN x.v THEN x.v[f] ELSE Undefined

----------------------------------------------------------------------------
(* The texts the agent may return, and what JSON.parse makes of each.      *)
ParseFailureMsg == "Failed to retrieve a valid response."
ComparisonFallbackMsg ==
    "The comparison did not retrieve enough details. Please try a different query."

TNormal      == "{\"type\":\"normal\",\"output\":\"The NPP manifesto proposes X.\"}"
TNormalEmpty == "{\"type\":\"normal\",\"output\":\"\"}"
TNormalNum   == "{\"type\":\"normal\",\"output\":42}"
TNormalNone  == "{\"type\":\"normal\"}"
TNormalExtra == "{\"type\":\"normal\",\"output\":\"A\",\"debug\":1}"
TCmp         == "{\"type\":\"Comparison\",\"title\":\"T\",\"ComparisonArray\":[{\"name\":\"NPP\",\"pointArray\":[]}],\"keyPoints\":\"K\"}"
TCmpBare     == "{\"type\":\"Comparison\",\"ComparisonArray\":[1]}"
TCmpEmpty    == "{\"type\":\"Comparison\",\"ComparisonArray\":[]}"
TCmpNone     == "{\"type\":\"Comparison\"}"
TCmpNotArr   == "{\"type\":\"Comparison\",\"ComparisonArray\":\"x\"}"
TOther       == "{\"type\":\"other\",\"output\":\"A\"}"
TNoType      == "{\"foo\":1}"
TNull        == "null"
TNumber      == "42"
TString      == "\"hello\""
TArray       == "[1]"
TNotJson     == "not json at all"
TEmpty       == ""

Subject == Obj([name |-> Str("NPP"), pointArray |-> Arr(<<>>)])

RawTexts == {TNormal, TNormalEmpty, TNormalNum, TNormalNone, TNormalExtra,
             TCmp, TCmpBare, TCmpEmpty, TCmpNone, TCmpNotArr, TOther,
             TNoType, TNull, TNumber, TString, TArray, TNotJson, TEmpty}

\* String(x), the conversion JSON.parse applies to its argument first
ToText(x) == IF x.k = "string" THEN x.v ELSE "undefined"

\* JSON.parse(x): the parsed value, or a SyntaxError
JSONparse(x) ==
    LET t == ToText(x) IN
    CASE t = TNormal      -> Return(Obj([type |-> Str("normal"),
                                         output |-> Str("The NPP manifesto proposes X.")]))
      [] t = TNormalEmpty -> Return(Obj([type |-> Str("normal"), output |-> Str("")]))
      [] t = TNormalNum   -> Return(Obj([type |-> Str("normal"), output |-> Num(42)]))
      [] t = TNormalNone  -> Return(Obj([type |-> Str("normal")]))
      [] t = TNormalExtra -> Return(Obj([type |-> Str("normal"), output |-> Str("A"),
                                         debug |-> Num(1)]))
      [] t = TCmp         -> Return(Obj([type |-> Str("Comparison"), title |-> Str("T"),
                                         ComparisonArray |-> Arr(<<Subject>>),
                                         keyPoints |-> Str("K")]))
      [] t = TCmpBare     -> Return(Obj([type |-> Str("Comparison"),
                                         ComparisonArray |-> Arr(<<Num(1)>>)]))
      [] t = TCmpEmpty    -> Return(Obj([type |-> Str("Comparison"),
                                         ComparisonArray |-> Arr(<<>>)]))
      [] t = TCmpNone     -> Return(Obj([type |-> Str("Comparison")]))
      [] t = TCmpNotArr   -> Return(Obj([type |-> Str("Comparison"),
                                         ComparisonArray |-> Str("x")]))
      [] t = TOther       -> Return(Obj([type |-> Str("other"), output |-> Str("A")]))
      [] t = TNoType      -> Return(Obj([foo |-> Num(1)]))
      [] t = TNull        -> Return(Null)
      [] t = TNumber      -> Return(Num(42))
      [] t = TString      -> Return(Str("hello"))
      [] t = TArray       -> Return(Arr(<<Num(1)>>))
      [] OTHER            -> Throw("SyntaxError")

\* the values agentResponse.output may hold when parseOutput is called
RawOutputs == {Str(t) : t \in RawTexts} \cup {Undefined}

----------------------------------------------------------------------------
(* ManifestoOutputParser.parseOutput                                       *)
Fallback(o) == Obj([type |-> Str("fallback"), output |-> o])

\* first definition, the try block (lines 38-60)
TryBlock1(output) ==
    LET j == JSONparse(output) IN
    IF j.c = "throw" THEN j
    ELSE LET parsedResponse == j.v IN
         IF Nullish(parsedResponse) THEN Throw("TypeError")
         ELSE IF IsStr(Prop(parsedResponse, "type"), "Comparison")
              THEN LET ca == Prop(parsedResponse, "ComparisonArray") IN
                   IF ToBoolean(ca) /\ IsArray(ca) /\ Len(ca.v) > 0
                   THEN Return(parsedResponse)
                   ELSE Return(Fallback(Str(ComparisonFallbackMsg)))
         ELSE IF IsStr(Prop(parsedResponse, "type"), "normal")
              THEN LET o == Prop(parsedResponse, "output") IN
                   IF ToBoolean(o) /\ TypeofString(o)
                   THEN Return(parsedResponse)
                   ELSE Normal
         ELSE Normal

\* first definition with the catch clause left out
ParseOutput1NoCatch(output) ==
    LET t == TryBlock1(output) IN
    IF t.c = "normal" THEN Return(Fallback(output)) ELSE t

\* first definition (lines 37-71)
parseOutput1(output) ==
    LET t == TryBlock1(output) IN
    CASE t.c = "throw"  -> Return(Fallback(Str(ParseFailureMsg)))
      [] t.c = "return" -> t
      [] OTHER          -> Return(Fallback(output))

\* second definition, the try block (lines 320-332)
TryBlock2(output) ==
    LET j == JSONparse(output) IN
    IF j.c = "throw" THEN j
    ELSE LET parsedResponse == j.v IN
         IF Nullish(parsedResponse) THEN Throw("TypeError")
         ELSE LET type         == Prop(parsedResponse, "type")
                  normalOutput == Prop(parsedResponse, "output")
                  ca           == Prop(parsedResponse, "ComparisonArray")
              IN IF IsStr(type, "Comparison") /\ IsArray(ca) /\ Len(ca.v) > 0
                 THEN Return(parsedResponse)
                 ELSE IF IsStr(type, "normal") /\ TypeofString(normalOutput)
                 THEN Return(parsedResponse)
                 ELSE Normal

\* second definition (lines 319-338)
parseOutput2(output) ==
    LET t == TryBlock2(output) IN
    IF t.c = "return" THEN t
    ELSE Return(Fallback(Str(ParseFailureMsg)))

parseOutput(d, output) == IF d = 1 THEN parseOutput1(output) ELSE parseOutput2(output)

----------------------------------------------------------------------------
(* Direct calls of the parser: each call is handed one of RawOutputs.      *)
NoCall == [c |-> "none", v |-> Undefined]

HandlerIdle ==
    /\ mongo = "pending" /\ alive = TRUE
    /\ pc = [r \in Reqs |-> "idle"]
    /\ req = [r \in Reqs |-> [input |-> Undefined, chat_history |-> Undefined]]
    /\ input = [r \in Reqs |-> Undefined]
    /\ chat_history = [r \in Reqs |-> Undefined]
    /\ agentExecutor = [r \in Reqs |-> Undefined]
    /\ res = [r \in Reqs |-> <<>>]
    /\ touched = [r \in Reqs |-> <<>>]
    /\ failure = [r \in Reqs |-> "none"]
    /\ invoked = [r \in Reqs |-> Undefined]
    /\ agentOut = [r \in Reqs |-> NoCall]
    /\ conv = [r \in Reqs |-> Arr(<<>>)]
    /\ turnsDone = [r \in Reqs |-> 0]
    /\ sent = 0
ParserIdle ==
    /\ pOutput = Undefined /\ pResult = NoCall
    /\ pPrev = [output |-> Undefined, result |-> NoCall] /\ pCalls = 0
FormatIdle ==
    /\ fHistory = <<>> /\ fResult = NoCall

InitParse == def \in Defs /\ HandlerIdle /\ ParserIdle /\ FormatIdle

ParseCall ==
    /\ pCalls < MaxCalls
    /\ \E output \in RawOutputs :
         /\ pOutput' = output
         /\ pResult' = parseOutput(def, output)
    /\ pPrev' = [output |-> pOutput, result |-> pResult]
    /\ pCalls' = pCalls + 1
    /\ UNCHANGED <<def, handlerVars, formatVars>>

NextParse == ParseCall
SpecParse == InitParse /\ [][NextParse]_vars

----------------------------------------------------------------------------
(* formatConversationHistory                                               *)

\* `Comparison: ${JSON.stringify(x, null, 2)}` for the values x that the
\* ComparisonArray field of a history entry holds in this model
ComparisonContent(x) ==
    "Comparison: " \o
    ( CASE x.k = "undefined"      -> "undefined"
        [] x = Arr(<<>>)          -> "[]"
        [] x = Arr(<<Num(1)>>)    -> "[\n  1\n]"
        [] x = Arr(<<Subject>>)   ->
             "[\n  {\n    \"name\": \"NPP\",\n    \"pointArray\": []\n  }\n]"
        [] x = Str("x")           -> "\"x\""
        [] OTHER                  -> "null" )

\* the map callback (lines 76-93 and 344-359): an agent message, or null
MapMessage(message) ==
    IF Nullish(message) THEN Throw("TypeError")
    ELSE IF IsStr(Prop(message, "type"), "Comparison")
         THEN Return(Obj([role |-> Str("assistant"),
                          content |-> Str(ComparisonContent(
                                            Prop(message, "ComparisonArray")))]))
    ELSE IF IsStr(Prop(message, "type"), "normal")
         THEN Return(Obj([role |-> Str("assistant"),
                          content |-> Prop(message, "output")]))
    ELSE IF IsStr(Prop(message, "role"), "human")
         THEN Return(Obj([role |-> Str("human"),
                          content |-> Prop(message, "input")]))
    ELSE Return(Null)

\* filter(msg => msg !== null) (line 94)
Keep1(msg) == msg.k # "null"
\* filter(Boolean) (line 361)
Keep2(msg) == ToBoolean(msg)

\* history.map(...).filter(...) over the elements of the array
formatConversationHistory(d, history) ==
    IF \E i \in 1..Len(history) : MapMessage(history[i]).c = "throw"
    THEN Throw("TypeError")
    ELSE LET mapped == [i \in 1..Len(history) |-> MapMessage(history[i]).v]
             Keep(msg) == IF d = 1 THEN Keep1(msg) ELSE Keep2(msg)
         IN Return(Arr(SelectSeq(mapped, Keep)))

----------------------------------------------------------------------------
(* Direct calls of the formatter, on every array of up to MaxHistLen of    *)
(* these elements.                                                         *)
EHuman    == Obj([role |-> Str("human"), input |-> Str("Hello")])
ENormal   == Obj([type |-> Str("normal"), output |-> Str("A")])
ECmp      == Obj([type |-> Str("Comparison"), title |-> Str("T"),
                  ComparisonArray |-> Arr(<<Subject>>), keyPoints |-> Str("K")])
EFallback == Fallback(Str(ParseFailureMsg))
EOther    == Obj([foo |-> Num(1)])

HistoryEntries == {EHuman, ENormal, ECmp, EFallback, EOther, Null, Num(7), Str("x")}
Histories == UNION {[1..n -> HistoryEntries] : n \in 0..MaxHistLen}

InitFormat ==
    /\ def \in Defs /\ HandlerIdle /\ ParserIdle
    /\ fHistory \in Histories /\ fResult = NoCall

FormatCall ==
    /\ fResult = NoCall
    /\ fResult' = formatConversationHistory(def, fHistory)
    /\ UNCHANGED <<def, handlerVars, parserVars, fHistory>>

NextFormat == FormatCall
SpecFormat == InitFormat /\ [][NextFormat]_vars

----------------------------------------------------------------------------
(* The /query handler (lines 235-273 and 474-515).                         *)

BadRequest ==
    [status |-> 400, body |-> Obj([error |-> Str("Input and chat history are required")])]
ProcessingError ==
    [status |-> 500,
     body |-> Obj([error |-> Str("An error occurred while processing the query")])]
\* the framework's own answer to an error no handler dealt with
FrameworkError == [status |-> 500, body |-> Str("Internal Server Error")]
Ok(response, history) ==
    [status |-> 200, body |-> Obj([response |-> response, chat_history |-> history])]

\* what clients put in a request body, besides the history they hold
ClientInputs    == {Str("Hello"), Str(""), Num(42), Undefined}
ClientHistories == {Arr(<<>>), Arr(<<Null>>), Arr(<<EOther>>), Str("x")}
\* what the agent run of a request may return as agentResponse.output
AgentOutputs    == {Str(TNormal), Str(TCmpEmpty), Str(TNotJson)}
\* how the agent run of a request may fail
AgentFailures   == {"RetrievalUnavailable", "AgentInvocationFailed"}

\* the handler's const and destructured locals live in the block scope of
\* one invocation (lines 236, 243-244, 248-266 and 475, 483-503)
SharedScope(r) == 1
Scope(r) == r

\* the validation of lines 237 and 476: true when the request is rejected
Rejects(i, h) == ~ToBoolean(i) \/ ~IsArray(h)

\* [...chat_history, { role: "human", input }, parsedAgentResponse]
\* without the human entry
UpdatedWithoutHuman(ch, i, parsed) == Arr(ch.v \o <<parsed>>)
\* lines 262-266 and 499-503
updatedChatHistory(ch, i, parsed) ==
    Arr(ch.v \o <<Obj([role |-> Str("human"), input |-> i]), parsed>>)

Set(f, r, x) == [f EXCEPT ![r] = x]

\* the client posts a request; the handler runs to its first await
Query(r) ==
    /\ alive /\ pc[r] \in {"idle", "done"} /\ sent < MaxSent
    /\ \E i \in ClientInputs, h \in ClientHistories \cup {conv[r]} :
         /\ req' = Set(req, r, [input |-> i, chat_history |-> h])
         /\ input' = Set(input, Scope(r), i)
         /\ chat_history' = Set(chat_history, Scope(r), h)
         /\ IF Rejects(i, h)
            THEN /\ res' = Set(res, r, <<BadRequest>>)
                 /\ pc' = Set(pc, r, "done")
                 /\ touched' = Set(touched, r, <<>>)
            ELSE /\ res' = Set(res, r, <<>>)
                 /\ pc' = Set(pc, r, "awaitInit")
                 /\ touched' = Set(touched, r, <<"initializeAgent">>)
    /\ failure' = Set(failure, r, "none")
    /\ invoked' = Set(invoked, r, Undefined)
    /\ agentOut' = Set(agentOut, r, NoCall)
    /\ sent' = sent + 1
    /\ UNCHANGED <<def, mongo, alive, agentExecutor, conv, turnsDone,
                   parserVars, formatVars>>

\* mongoClient.connect() resolves (lines 33, 312)
MongoConnect ==
    /\ alive /\ mongo = "pending"
    /\ mongo' = "connected"
    /\ UNCHANGED <<def, alive, pc, req, input, chat_history, agentExecutor, res,
                   touched, failure, invoked, agentOut, conv, turnsDone, sent,
                   parserVars, formatVars>>

\* mongoClient.connect() rejects: the second definition exits the process
\* (lines 312-315); the first leaves the rejection to whoever awaits the
\* promise, and with nobody awaiting it is an unhandled rejection, which
\* ends the process or only warns, depending on the runtime
MongoFail ==
    /\ alive /\ mongo = "pending"
    /\ mongo' = "failed"
    /\ IF def = 2 THEN alive' = FALSE
       ELSE IF \E r \in Reqs : pc[r] = "awaitInit" THEN alive' = TRUE
       ELSE alive' \in BOOLEAN
    /\ UNCHANGED <<def, pc, req, input, chat_history, agentExecutor, res,
                   touched, failure, invoked, agentOut, conv, turnsDone, sent,
                   parserVars, formatVars>>

\* initializeAgent resolves; the handler formats the history and calls the
\* agent (lines 243-254 and 483-493)
InitResolve(r) ==
    /\ alive /\ pc[r] = "awaitInit" /\ mongo = "connected"
    /\ agentExecutor' = Set(agentExecutor, Scope(r), [builtFor |-> r])
    /\ LET formattedHistory ==
               formatConversationHistory(def, chat_history[Scope(r)].v)
       IN IF formattedHistory.c = "throw"
          THEN /\ res' = Set(res, r, <<ProcessingError>>)
               /\ pc' = Set(pc, r, "done")
               /\ failure' = Set(failure, r, "formatConversationHistory")
               /\ touched' = Set(touched, r,
                                 Append(touched[r], "formatConversationHistory"))
               /\ UNCHANGED invoked
          ELSE /\ invoked' = Set(invoked, r,
                                 [executor |-> agentExecutor'[Scope(r)],
                                  input |-> input[Scope(r)],
                                  chat_history |-> formattedHistory.v])
               /\ pc' = Set(pc, r, "awaitInvoke")
               /\ touched' = Set(touched, r,
                                 touched[r] \o <<"formatConversationHistory",
                                                 "agentExecutor.invoke">>)
               /\ UNCHANGED <<res, failure>>
    /\ UNCHANGED <<def, mongo, alive, req, input, chat_history, agentOut, conv,
                   turnsDone, sent, parserVars, formatVars>>

\* initializeAgent rejects, because the connection failed or because
\* building the agent failed.  The second definition awaits it inside the
\* try (line 483) and answers 500; the first awaits it outside (line 243),
\* so the handler's promise rejects with nothing sent by the handler.  What
\* follows is the runtime's choice: the rejection goes unhandled, which ends
\* the process or only warns and leaves the request open, or the framework
\* catches it and sends its own error page
InitReject(r) ==
    /\ alive /\ pc[r] = "awaitInit" /\ mongo \in {"connected", "failed"}
    /\ failure' = Set(failure, r, "initializeAgent")
    /\ IF def = 1
       THEN \/ /\ pc' = Set(pc, r, "unhandled")
               /\ alive' \in BOOLEAN
               /\ UNCHANGED res
            \/ /\ pc' = Set(pc, r, "done")
               /\ res' = Set(res, r, Append(res[r], FrameworkError))
               /\ UNCHANGED alive
       ELSE /\ pc' = Set(pc, r, "done")
            /\ res' = Set(res, r, Append(res[r], ProcessingError))
            /\ UNCHANGED alive
    /\ UNCHANGED <<def, mongo, req, input, chat_history, agentExecutor, touched,
                   invoked, agentOut, conv, turnsDone, sent, parserVars, formatVars>>

\* the agent run returns a text; the handler parses it, extends the history
\* and answers (lines 251-268 and 490-508); the client keeps the returned
\* history when the request continued the conversation it holds
InvokeResolve(r) ==
    /\ alive /\ pc[r] = "awaitInvoke"
    /\ \E output \in AgentOutputs :
         LET parsedAgentResponse == parseOutput(def, output) IN
         /\ agentOut' = Set(agentOut, r, Return(output))
         /\ IF parsedAgentResponse.c = "throw"
            THEN /\ res' = Set(res, r, Append(res[r], ProcessingError))
                 /\ failure' = Set(failure, r, "parseOutput")
                 /\ UNCHANGED <<conv, turnsDone>>
            ELSE LET updated == updatedChatHistory(chat_history[Scope(r)],
                                                   input[Scope(r)],
                                                   parsedAgentResponse.v)
                 IN /\ res' = Set(res, r,
                                  Append(res[r], Ok(parsedAgentResponse.v, updated)))
                    /\ UNCHANGED failure
                    /\ IF req[r].chat_history = conv[r]
                       THEN /\ conv' = Set(conv, r, updated)
                            /\ turnsDone' = Set(turnsDone, r, turnsDone[r] + 1)
                       ELSE UNCHANGED <<conv, turnsDone>>
    /\ pc' = Set(pc, r, "done")
    /\ UNCHANGED <<def, mongo, alive, req, input, chat_history, agentExecutor,
                   touched, invoked, sent, parserVars, formatVars>>

\* the agent run throws (a tool's search failed, or the model call failed);
\* both definitions catch it and answer 500 (lines 269-272 and 509-514)
InvokeReject(r) ==
    /\ alive /\ pc[r] = "awaitInvoke"
    /\ \E e \in AgentFailures : agentOut' = Set(agentOut, r, Throw(e))
    /\ failure' = Set(failure, r, "agentExecutor.invoke")
    /\ res' = Set(res, r, Append(res[r], ProcessingError))
    /\ pc' = Set(pc, r, "done")
    /\ UNCHANGED <<def, mongo, alive, req, input, chat_history, agentExecutor,
                   touched, invoked, conv, turnsDone, sent, parserVars, formatVars>>

Init == def \in Defs /\ HandlerIdle /\ ParserIdle /\ FormatIdle

Next ==
    \/ MongoConnect
    \/ MongoFail
    \/ \E r \in Reqs : Query(r)
    \/ \E r \in Reqs : InitResolve(r)
    \/ \E r \in Reqs : InitReject(r)
    \/ \E r \in Reqs : InvokeResolve(r)
    \/ \E r \in Reqs : InvokeReject(r)

Spec == Init /\ [][Next]_vars

----------------------------------------------------------------------------
(* Vocabulary of the properties.                                           *)

Called      == pResult # NoCall
Parses(x)   == JSONparse(x).c = "return"
Parsed(x)   == JSONparse(x).v
\* the discriminant of a parsed value; absent on values that carry no field
TypeOf(x)   == IF Nullish(x) THEN Undefined ELSE Prop(x, "type")
FieldOf(x, f) == IF Nullish(x) THEN Undefined ELSE Prop(x, f)
NonEmptyArray(x) == x.k = "array" /\ Len(x.v) > 0
ResultType(x) == IF x.c = "return" THEN TypeOf(x.v) ELSE Undefined

Answered(r)  == Len(res[r]) > 0
Answer(r)    == res[r][Len(res[r])]
Succeeded(r) == Answered(r) /\ Answer(r).status = 200
Returned(r)  == Answer(r).body.v.chat_history.v
Response(r)  == Answer(r).body.v.response
HumanTurn(i) == Obj([role |-> Str("human"), input |-> i])
NonEmptyString(x) == x.k = "string" /\ x.v # ""

HasString(x, f) == FieldOf(x, f).k = "string"
IsHumanTurn(x)  == x.k = "object" /\ IsStr(FieldOf(x, "role"), "human")
                   /\ HasString(x, "input")
IsNormal(x)     == x.k = "object" /\ IsStr(TypeOf(x), "normal") /\ HasString(x, "output")
IsComparison(x) == x.k = "object" /\ IsStr(TypeOf(x), "Comparison")
                   /\ HasString(x, "title") /\ HasString(x, "keyPoints")
                   /\ NonEmptyArray(FieldOf(x, "ComparisonArray"))
IsFallback(x)   == x.k = "object" /\ IsStr(TypeOf(x), "fallback") /\ HasString(x, "output")

\* what the formatter is to make of one history entry
EntryClass(x) ==
    CASE IsStr(TypeOf(x), "Comparison")      -> "Comparison"
      [] IsStr(TypeOf(x), "normal")          -> "normal"
      [] IsStr(FieldOf(x, "role"), "human")  -> "human"
      [] OTHER                               -> "dropped"
Contributes(x) == EntryClass(x) # "dropped"

----------------------------------------------------------------------------
(* Properties.                                                             *)

\* C1: a successful turn returns the request's chat_history followed by
\* exactly two entries, the human turn of the request's input and then the
\* normalized response, which is also the `response` field; the original
\* entries keep their positions; a conversation fed back turn after turn
\* from the empty history has length 2n after n successful turns.
TurnAppendsTwo ==
    \A r \in Reqs :
        /\ Succeeded(r) =>
             LET old == req[r].chat_history.v
                 new == Returned(r)
             IN /\ Len(res[r]) = 1
                /\ Len(new) = Len(old) + 2
                /\ SubSeq(new, 1, Len(old)) = old
                /\ new[Len(old) + 1] = HumanTurn(req[r].input)
                /\ new[Len(old) + 2] = Response(r)
                /\ Return(Response(r)) = parseOutput(def, agentOut[r].v)
        /\ Len(conv[r].v) = 2 * turnsDone[r]
\* two turns of one conversation, the second on a non-empty history
TurnAppendsTwoWitness ==
    \E r \in Reqs :
        /\ Succeeded(r) /\ turnsDone[r] = 2
        /\ Len(req[r].chat_history.v) = 2 /\ Len(Returned(r)) = 4

\* C2: a failure in acquiring the agent, formatting, invoking the agent or
\* normalizing ends the turn with exactly one 500 response and nothing else.
FailureAnswered500 ==
    \A r \in Reqs : failure[r] # "none" => res[r] = <<ProcessingError>>

\* C3: a request whose input is not a non-empty string or whose
\* chat_history is not an array is answered 400 with no collaborator
\* called, and only requests with a non-empty string input and an array
\* history reach the agent.
InvalidRejectedFirst ==
    \A r \in Reqs :
        pc[r] # "idle" =>
            LET valid == NonEmptyString(req[r].input) /\ IsArray(req[r].chat_history)
            IN /\ ~valid => res[r] = <<BadRequest>> /\ touched[r] = <<>>
               /\ touched[r] # <<>> => valid

\* C4: a text that parses to type "Comparison" with a missing or empty
\* ComparisonArray yields the fallback with the comparison message, which
\* is not the parse-failure message.
EmptyComparisonFallback ==
    (Called /\ Parses(pOutput) /\ IsStr(TypeOf(Parsed(pOutput)), "Comparison")
       /\ ( FieldOf(Parsed(pOutput), "ComparisonArray").k = "undefined"
            \/ FieldOf(Parsed(pOutput), "ComparisonArray") = Arr(<<>>) ))
    => /\ pResult = Return(Fallback(Str(ComparisonFallbackMsg)))
       /\ ComparisonFallbackMsg # ParseFailureMsg

\* C5: a text that parses to a value whose type is neither "Comparison"
\* nor "normal", or to type "normal" with an output that is no string,
\* yields the fallback whose output is the raw text itself.
UnrecognizedEchoesRaw ==
    (Called /\ Parses(pOutput)
       /\ ( ( ~IsStr(TypeOf(Parsed(pOutput)), "Comparison")
              /\ ~IsStr(TypeOf(Parsed(pOutput)), "normal") )
            \/ ( IsStr(TypeOf(Parsed(pOutput)), "normal")
                 /\ FieldOf(Parsed(pOutput), "output").k # "string" ) ))
    => pResult = Return(Fallback(pOutput))

\* C6: a text that parses to type "Comparison" with a non-empty
\* ComparisonArray, or to type "normal" with a string output, yields the
\* parsed value itself.
ValidPassesThrough ==
    (Called /\ Parses(pOutput)
       /\ ( ( IsStr(TypeOf(Parsed(pOutput)), "Comparison")
              /\ NonEmptyArray(FieldOf(Parsed(pOutput), "ComparisonArray")) )
            \/ ( IsStr(TypeOf(Parsed(pOutput)), "normal")
                 /\ FieldOf(Parsed(pOutput), "output").k = "string" ) ))
    => pResult = Return(Parsed(pOutput))

\* C7: parseOutput returns on every input, with a value of type "normal",
\* "Comparison" or "fallback", and two calls on the same input return the
\* same value whatever was parsed in between.
ParserTotal ==
    Called =>
        /\ pResult.c = "return"
        /\ \E t \in {"normal", "Comparison", "fallback"} : IsStr(ResultType(pResult), t)
        /\ (pPrev.result # NoCall /\ pPrev.output = pOutput) => pPrev.result = pResult
\* a text that parses to null, parsed twice in a row
ParserTotalWitness ==
    /\ Called /\ pOutput = Str(TNull)
    /\ pPrev.result # NoCall /\ pPrev.output = Str(TNull)
    /\ IsStr(ResultType(pResult), "fallback")

\* C8: the formatter returns on every array, with one message per
\* Comparison, normal or human entry, in order (assistant, assistant with
\* the stored output, human with the stored input), and none for others.
FormatterTotal ==
    fResult # NoCall =>
        /\ fResult.c = "return"
        /\ LET kept == SelectSeq(fHistory, Contributes)
               out  == fResult.v.v
           IN /\ Len(out) = Len(kept)
              /\ \A i \in 1..Len(kept) :
                   CASE EntryClass(kept[i]) = "Comparison" ->
                          IsStr(Prop(out[i], "role"), "assistant")
                     [] EntryClass(kept[i]) = "normal" ->
                          /\ IsStr(Prop(out[i], "role"), "assistant")
                          /\ Prop(out[i], "content") = Prop(kept[i], "output")
                     [] OTHER ->
                          /\ IsStr(Prop(out[i], "role"), "human")
                          /\ Prop(out[i], "content") = Prop(kept[i], "input")

\* C9: every entry of a returned chat_history is a human turn, a normal
\* answer, a comparison or a fallback.
ReturnedHistoryCanonical ==
    \A r \in Reqs :
        Succeeded(r) =>
            \A n \in 1..Len(Returned(r)) :
                LET x == Returned(r)[n]
                IN IsHumanTurn(x) \/ IsNormal(x) \/ IsComparison(x) \/ IsFallback(x)

\* a request between its first await and its answer
Suspended(r) == pc[r] \in {"awaitInit", "awaitInvoke"}
OwnLocals(r) ==
    /\ Suspended(r) => /\ input[r] = req[r].input
                       /\ chat_history[r] = req[r].chat_history
    /\ pc[r] = "awaitInvoke" =>
         /\ agentExecutor[r] = [builtFor |-> r]
         /\ invoked[r] = [executor |-> [builtFor |-> r],
                          input |-> req[r].input,
                          chat_history |->
                              formatConversationHistory(def, req[r].chat_history.v).v]
    /\ Succeeded(r) =>
         /\ Return(Response(r)) = parseOutput(def, agentOut[r].v)
         /\ Returned(r) = req[r].chat_history.v
                            \o <<HumanTurn(req[r].input), Response(r)>>
UntouchedWhileSuspended(r) ==
    (Suspended(r) /\ pc'[r] = pc[r]) =>
        /\ input'[r] = input[r] /\ chat_history'[r] = chat_history[r]
        /\ agentExecutor'[r] = agentExecutor[r]
        /\ invoked'[r] = invoked[r] /\ agentOut'[r] = agentOut[r]
        /\ res'[r] = res[r] /\ req'[r] = req[r]
\* C10: while a request is suspended no step changes its locals; the agent
\* run of a request gets the executor built for it, its own input and its
\* own formatted history; the answer is made of its own input, its own
\* chat_history and the output of its own agent run.
RequestIsolation ==
    /\ [](\A r \in Reqs : OwnLocals(r))
    /\ [][\A r \in Reqs : UntouchedWhileSuspended(r)]_vars
\* two requests with different inputs and histories suspended in their
\* agent runs at the same time
RequestIsolationWitness ==
    \E r1, r2 \in Reqs :
        /\ r1 # r2 /\ pc[r1] = "awaitInvoke" /\ pc[r2] = "awaitInvoke"
        /\ req[r1].input # req[r2].input
        /\ req[r1].chat_history # req[r2].chat_history

====
